---- MODULE Spec2Model ----
(***************************************************************************)
(* Model of ht_timeparser (src/src/lib.rs): the HTDate value, its two      *)
(* formatters (Display::fmt / to_string, to_string_no_secs), the month     *)
(* code resolver parse_month_from_gl_and_m and the parser                  *)
(* HTDate::interpret_string.                                               *)
(*                                                                         *)
(* A Rust &str is modelled as a sequence of bytes.  An ASCII byte is the   *)
(* one-character string of its character; the bytes of multi-byte UTF-8    *)
(* characters are written by their hexadecimal value ("C3", "A9", ...).    *)
(* A panic (abnormal termination) is an outcome of its own, next to Ok     *)
(* and Err.                                                                *)
(***************************************************************************)
EXTENDS Integers, Sequences, FiniteSets, TLC

VARIABLES input, result, date, text, short, back, twin, twinResult,
          gl_in, month_in, pair, resolved, done

vars == <<input, result, date, text, short, back, twin, twinResult,
          gl_in, month_in, pair, resolved, done>>

(***************************************************************************)
(* Bytes and UTF-8                                                         *)
(***************************************************************************)

\* The ten decimal digits, in order of value.
DigitChars == <<"0", "1", "2", "3", "4", "5", "6", "7", "8", "9">>

Digit == {DigitChars[i] : i \in 1..Len(DigitChars)}

\* char::to_digit(10) of a digit byte.
DigitVal(c) == (CHOOSE i \in 1..Len(DigitChars) : DigitChars[i] = c) - 1

\* Continuation bytes (10xxxxxx) of multi-byte characters.
ContByte == {"A9", "82"}

\* Lead bytes of two-byte characters (110xxxxx).
Lead2Byte == {"C3", "C4"}

\* Lead bytes of three-byte characters (1110xxxx).
Lead3Byte == {"E2"}

\* The type invariant of &str: the bytes are well-formed UTF-8.
RECURSIVE Utf8From(_, _)
Utf8From(s, i) ==
    IF i > Len(s) THEN TRUE
    ELSE IF s[i] \in Lead2Byte
         THEN i + 1 <= Len(s) /\ s[i + 1] \in ContByte /\ Utf8From(s, i + 2)
    ELSE IF s[i] \in Lead3Byte
         THEN i + 2 <= Len(s) /\ s[i + 1] \in ContByte /\ s[i + 2] \in ContByte
              /\ Utf8From(s, i + 3)
    ELSE IF s[i] \in ContByte THEN FALSE
    ELSE Utf8From(s, i + 1)

ValidUtf8(s) == Utf8From(s, 1)

\* str::is_char_boundary(i), i a 0-based byte offset.
IsCharBoundary(s, i) ==
    \/ i = 0
    \/ i = Len(s)
    \/ i < Len(s) /\ s[i + 1] \notin ContByte

\* &s[a..b]: the bytes a..b-1 (0-based), or a panic when the range is out
\* of bounds or does not lie on character boundaries.
Slice(s, a, b) ==
    IF a <= b /\ b <= Len(s) /\ IsCharBoundary(s, a) /\ IsCharBoundary(s, b)
    THEN [ok |-> TRUE, str |-> SubSeq(s, a + 1, b)]
    ELSE [ok |-> FALSE, str |-> <<>>]

(***************************************************************************)
(* Values                                                                  *)
(***************************************************************************)

MonthStatus == {"Greater", "Lesser"}

Month == {"Zero", "Niktvirin", "Apress", "Smosh", "Funny"}

MonthPairs == MonthStatus \X Month

\* u8::MAX, the width of HTDate.day.
MaxU8 == 255

\* Units of `second` per sks.
SksUnit == 6000

\* Largest day the compact date-only layout accepts.
DayLimit == 24

HTDate(year, month, day, second) ==
    [year |-> year, month |-> month, day |-> day, second |-> second]

\* A placeholder where no date is held.
NoDate == HTDate(0, <<"Greater", "Zero">>, 0, 0)

Ok(d) == [tag |-> "Ok", err |-> "", date |-> d]

Err(e) == [tag |-> "Err", err |-> e, date |-> NoDate]

\* The call did not return: a slice panicked.
Panic == [tag |-> "Panic", err |-> "", date |-> NoDate]

\* No call has been made yet.
NoResult == [tag |-> "None", err |-> "", date |-> NoDate]

MalformedString == "MalformedString"

TooManyDays == "TooManyDays"

(***************************************************************************)
(* Integer parsing and formatting (str::parse, format!("{:0>w}"))          *)
(***************************************************************************)

RECURSIVE DecimalValue(_)
DecimalValue(s) ==
    IF Len(s) = 0 THEN 0
    ELSE 10 * DecimalValue(SubSeq(s, 1, Len(s) - 1)) + DigitVal(s[Len(s)])

\* str::parse for an unsigned integer type whose largest value is max
\* (max < 0 stands for u128, which no slice of at most four bytes can
\* overflow): an optional leading '+', then one or more decimal digits.
ParseUnsigned(s, max) ==
    LET digits == IF Len(s) > 0 /\ s[1] = "+" THEN Tail(s) ELSE s
    IN  IF Len(s) = 0 THEN [ok |-> FALSE, val |-> 0]
        ELSE IF Len(s) = 1 /\ s[1] \in {"+", "-"} THEN [ok |-> FALSE, val |-> 0]
        ELSE IF \E i \in 1..Len(digits) : digits[i] \notin Digit
             THEN [ok |-> FALSE, val |-> 0]
        ELSE IF max >= 0 /\ DecimalValue(digits) > max
             THEN [ok |-> FALSE, val |-> 0]
        ELSE [ok |-> TRUE, val |-> DecimalValue(digits)]

ParseU128(s) == ParseUnsigned(s, -1)

ParseU8(s) == ParseUnsigned(s, MaxU8)

\* Display of an unsigned integer: its decimal digits, no sign.
RECURSIVE ToDecimal(_)
ToDecimal(n) ==
    IF n < 10 THEN <<DigitChars[n + 1]>>
    ELSE ToDecimal(n \div 10) \o <<DigitChars[(n % 10) + 1]>>

\* A fixed-width rendering: the last w digits only.
PadZeroTruncating(s, w) ==
    IF Len(s) >= w THEN SubSeq(s, Len(s) - w + 1, Len(s))
    ELSE [i \in 1..(w - Len(s)) |-> "0"] \o s

\* format!("{:0>w}", ..): right-aligned, filled with '0' up to width w.
PadZero(s, w) ==
    IF Len(s) >= w THEN s
    ELSE [i \in 1..(w - Len(s)) |-> "0"] \o s

(***************************************************************************)
(* Month codes                                                             *)
(***************************************************************************)

\* The inner match on month_str.
MonthOfCode(month_str) ==
    CASE month_str = <<"Z">> -> "Zero"
      [] month_str = <<"N">> -> "Niktvirin"
      [] month_str = <<"A">> -> "Apress"
      [] month_str = <<"S">> -> "Smosh"
      [] month_str = <<"F">> -> "Funny"
      [] OTHER -> ""

\* The value of a failed resolution.
MonthErr(e) == [ok |-> FALSE, err |-> e, month |-> NoDate.month]

MonthOk(status, m) == [ok |-> TRUE, err |-> "", month |-> <<status, m>>]

\* A resolver whose "L" arm has the arms of Smosh and Funny exchanged.
parse_month_swapped(gl_str, month_str) ==
    LET m == MonthOfCode(month_str)
        n == IF m = "Smosh" THEN "Funny" ELSE IF m = "Funny" THEN "Smosh" ELSE m
    IN  IF gl_str = <<"G">>
        THEN IF m # "" THEN MonthOk("Greater", m) ELSE MonthErr(MalformedString)
        ELSE IF gl_str = <<"L">>
        THEN IF n # "" THEN MonthOk("Lesser", n) ELSE MonthErr(MalformedString)
        ELSE MonthErr(MalformedString)

parse_month_from_gl_and_m(gl_str, month_str) ==
    LET m == MonthOfCode(month_str)
    IN  IF gl_str = <<"G">>
        THEN IF m # "" THEN MonthOk("Greater", m) ELSE MonthErr(MalformedString)
        ELSE IF gl_str = <<"L">>
        THEN IF m # "" THEN MonthOk("Lesser", m) ELSE MonthErr(MalformedString)
        ELSE MonthErr(MalformedString)

\* let gl = if self.month.0 == MonthStatus::Greater { "G" } else { "L" };
GlCode(month) == IF month[1] = "Greater" THEN "G" ELSE "L"

\* let month = match self.month.1 { ... };
MonthCode(month) ==
    CASE month[2] = "Zero" -> "Z"
      [] month[2] = "Niktvirin" -> "N"
      [] month[2] = "Apress" -> "A"
      [] month[2] = "Smosh" -> "S"
      [] month[2] = "Funny" -> "F"

(***************************************************************************)
(* Formatting                                                              *)
(***************************************************************************)

\* HTDate::to_string_no_secs
to_string_no_secs(d) ==
    LET year_padded == PadZero(ToDecimal(d.year), 4)
        day_padded == PadZero(ToDecimal(d.day), 2)
    IN  year_padded \o <<"-">> \o <<GlCode(d.month)>> \o <<MonthCode(d.month)>>
        \o <<"-">> \o day_padded

\* impl Display for HTDate (to_string)
to_string(d) ==
    LET year_padded == PadZero(ToDecimal(d.year), 4)
        day_padded == PadZero(ToDecimal(d.day), 2)
        sks == d.second \div SksUnit
        rem == d.second % SksUnit
        sks_padded == PadZero(ToDecimal(sks), 2)
        rem_padded == PadZero(ToDecimal(rem), 4)
    IN  year_padded \o <<"-">> \o <<GlCode(d.month)>> \o <<MonthCode(d.month)>>
        \o <<"-">> \o day_padded \o <<"T">> \o sks_padded \o <<"S">>
        \o rem_padded \o <<"R">>

(***************************************************************************)
(* Parsing: HTDate::interpret_string                                       *)
(***************************************************************************)

\* year, month and day of every layout, in the order the code parses them:
\*   year = year_str.parse().map_err(..)?;
\*   month = parse_month_from_gl_and_m(gl_str, month_str)?;
\*   day = day_str.parse().map_err(..)?;
\* The result carries second = 0, the value `second` is initialised to.
ParseDateFields(year_str, gl_str, month_str, day_str) ==
    LET year == ParseU128(year_str)
        month == parse_month_from_gl_and_m(gl_str, month_str)
        day == ParseU8(day_str)
    IN  IF ~year.ok THEN Err(MalformedString)
        ELSE IF ~month.ok THEN Err(month.err)
        ELSE IF ~day.ok THEN Err(MalformedString)
        ELSE Ok(HTDate(year.val, month.month, day.val, 0))

\* A time suffix read without `second *= 6000`.
ParseTimeFieldsUnscaled(d, sks_str, rem_str) ==
    LET sks == ParseU128(sks_str)
        rem == ParseU128(rem_str)
    IN  IF d.tag # "Ok" THEN d
        ELSE IF ~sks.ok THEN Err(MalformedString)
        ELSE IF ~rem.ok THEN Err(MalformedString)
        ELSE Ok(HTDate(d.date.year, d.date.month, d.date.day, sks.val + rem.val))

\* The time suffix of the 17- and 19-byte layouts:
\*   second = sks_str.parse().map_err(..)?;
\*   second *= 6000;
\*   second += rem_str.parse::<u128>().map_err(..)?;
ParseTimeFields(d, sks_str, rem_str) ==
    LET sks == ParseU128(sks_str)
        rem == ParseU128(rem_str)
    IN  IF d.tag # "Ok" THEN d
        ELSE IF ~sks.ok THEN Err(MalformedString)
        ELSE IF ~rem.ok THEN Err(MalformedString)
        ELSE Ok(HTDate(d.date.year, d.date.month, d.date.day,
                       sks.val * SksUnit + rem.val))

\* 17 => YYYYGMDDTNNSNNNNR
Interpret17(s) ==
    LET year_str == Slice(s, 0, 4)
        gl_str == Slice(s, 4, 5)
        month_str == Slice(s, 5, 6)
        day_str == Slice(s, 6, 8)
        sks_str == Slice(s, 9, 11)
        rem_str == Slice(s, 12, 16)
    IN  IF ~(year_str.ok /\ gl_str.ok /\ month_str.ok /\ day_str.ok
             /\ sks_str.ok /\ rem_str.ok)
        THEN Panic
        ELSE ParseTimeFields(
                 ParseDateFields(year_str.str, gl_str.str, month_str.str, day_str.str),
                 sks_str.str, rem_str.str)

\* 10 => YYYY-GM-DD
Interpret10(s) ==
    LET year_str == Slice(s, 0, 4)
        gl_str == Slice(s, 5, 6)
        month_str == Slice(s, 6, 7)
        day_str == Slice(s, 8, 10)
    IN  IF ~(year_str.ok /\ gl_str.ok /\ month_str.ok /\ day_str.ok)
        THEN Panic
        ELSE ParseDateFields(year_str.str, gl_str.str, month_str.str, day_str.str)

\* A 19-byte layout that insists on the '-' after the year.
Interpret19CheckingDash(s) ==
    LET year_str == Slice(s, 0, 4)
        gl_str == Slice(s, 5, 6)
        month_str == Slice(s, 6, 7)
        day_str == Slice(s, 8, 10)
        sks_str == Slice(s, 11, 13)
        rem_str == Slice(s, 14, 18)
    IN  IF ~(year_str.ok /\ gl_str.ok /\ month_str.ok /\ day_str.ok
             /\ sks_str.ok /\ rem_str.ok)
        THEN Panic
        ELSE IF s[5] # "-" THEN Err(MalformedString)
        ELSE ParseTimeFields(
                 ParseDateFields(year_str.str, gl_str.str, month_str.str, day_str.str),
                 sks_str.str, rem_str.str)

\* 19 => YYYY-GM-DDTNNSNNNNR
Interpret19(s) ==
    LET year_str == Slice(s, 0, 4)
        gl_str == Slice(s, 5, 6)
        month_str == Slice(s, 6, 7)
        day_str == Slice(s, 8, 10)
        sks_str == Slice(s, 11, 13)
        rem_str == Slice(s, 14, 18)
    IN  IF ~(year_str.ok /\ gl_str.ok /\ month_str.ok /\ day_str.ok
             /\ sks_str.ok /\ rem_str.ok)
        THEN Panic
        ELSE ParseTimeFields(
                 ParseDateFields(year_str.str, gl_str.str, month_str.str, day_str.str),
                 sks_str.str, rem_str.str)

\* A compact date-only layout whose day check is `day > 24 + 1`.
Interpret8LateLimit(s) ==
    LET year_str == Slice(s, 0, 4)
        gl_str == Slice(s, 4, 5)
        month_str == Slice(s, 5, 6)
        day_str == Slice(s, 6, 8)
        d == ParseDateFields(year_str.str, gl_str.str, month_str.str, day_str.str)
    IN  IF ~(year_str.ok /\ gl_str.ok /\ month_str.ok /\ day_str.ok)
        THEN Panic
        ELSE IF d.tag # "Ok" THEN d
        ELSE IF d.date.day > DayLimit + 1 THEN Err(TooManyDays)
        ELSE d

\* else branch (input.len() <= 8): "most likely YYYYGMDD"
Interpret8(s) ==
    LET year_str == Slice(s, 0, 4)
        gl_str == Slice(s, 4, 5)
        month_str == Slice(s, 5, 6)
        day_str == Slice(s, 6, 8)
        d == ParseDateFields(year_str.str, gl_str.str, month_str.str, day_str.str)
    IN  IF ~(year_str.ok /\ gl_str.ok /\ month_str.ok /\ day_str.ok)
        THEN Panic
        ELSE IF d.tag # "Ok" THEN d
        ELSE IF d.date.day > DayLimit THEN Err(TooManyDays)
        ELSE d

interpret_string(s) ==
    IF Len(s) > 8
    THEN CASE Len(s) = 17 -> Interpret17(s)
           [] Len(s) = 10 -> Interpret10(s)
           [] Len(s) = 19 -> Interpret19(s)
           [] OTHER -> Err(MalformedString)
    ELSE Interpret8(s)

(***************************************************************************)
(* Inputs                                                                  *)
(***************************************************************************)

\* Longest input length tried for the lengths outside the four layouts.
MaxLen == 21

\* Largest year and largest second given to HTDate::new.
MaxYear == 123456

MaxSecond == 6000000

\* Year fields: digits, signs, a letter, a two-byte character inside the field,
\* and a two-byte character that starts on the last byte of the field.
YearStrs ==
    {<<"2", "0", "1", "9">>,
     <<"0", "0", "0", "0">>,
     <<"9", "9", "9", "9">>,
     <<"+", "0", "1", "9">>,
     <<"-", "0", "1", "9">>,
     <<"2", "0", "a", "9">>,
     <<"2", "0", "C3", "A9">>,
     <<"2", "0", "1", "C3">>}

\* Status fields. "A9" continues a character begun in the year field.
GlStrs ==
    {<<"G">>,
     <<"L">>,
     <<"g">>,
     <<"A9">>}

\* Month fields.
MonthStrs ==
    {<<"Z">>,
     <<"N">>,
     <<"A">>,
     <<"S">>,
     <<"F">>,
     <<"X">>}

\* Day fields.
DayStrs ==
    {<<"0", "1">>,
     <<"2", "4">>,
     <<"2", "5">>,
     <<"9", "9">>,
     <<"+", "1">>,
     <<"1", "x">>}

\* Sks fields.
SksStrs ==
    {<<"3", "1">>,
     <<"0", "0">>,
     <<"9", "9">>,
     <<"+", "5">>,
     <<"3", "x">>,
     <<"3", "C3">>}

\* Remainder fields.
RemStrs ==
    {<<"2", "0", "0", "0">>,
     <<"0", "0", "0", "0">>,
     <<"5", "9", "9", "9">>,
     <<"6", "0", "0", "0">>,
     <<"9", "9", "9", "9">>,
     <<"+", "2", "0", "0">>,
     <<"2", "0", "x", "0">>,
     <<"2", "0", "C3", "A9">>}

\* The date fields tried together with a time suffix.
TimedYearStrs ==
    {<<"2", "0", "1", "9">>,
     <<"+", "0", "1", "9">>,
     <<"2", "0", "a", "9">>}

\* Status fields tried together with a time suffix.
TimedGlStrs ==
    {<<"G">>,
     <<"L">>}

\* Month fields tried together with a time suffix.
TimedMonthStrs ==
    {<<"A">>,
     <<"X">>}

\* Day fields tried together with a time suffix.
TimedDayStrs ==
    {<<"0", "1">>,
     <<"2", "5">>,
     <<"1", "x">>}

\* What stands at the delimiter offsets: the literal delimiters, or the same
\* byte everywhere ("A9" continues a character begun in the field before).
DelimStyles == {"literal", "x", "A9"}

Delim(style, literal) == IF style = "literal" THEN <<literal>> ELSE <<style>>

Compact8(y, g, m, d) == y \o g \o m \o d

Dashed10(y, g, m, d, st) == y \o Delim(st, "-") \o g \o m \o Delim(st, "-") \o d

Compact17(y, g, m, d, k, r, st) ==
    y \o g \o m \o d \o Delim(st, "T") \o k \o Delim(st, "S") \o r \o Delim(st, "R")

Dashed19(y, g, m, d, k, r, st) ==
    y \o Delim(st, "-") \o g \o m \o Delim(st, "-") \o d
      \o Delim(st, "T") \o k \o Delim(st, "S") \o r \o Delim(st, "R")

DateOnlyInputs ==
    {Compact8(y, g, m, d) : y \in YearStrs, g \in GlStrs, m \in MonthStrs, d \in DayStrs}
    \cup
    UNION {{Dashed10(y, g, m, d, st) : y \in YearStrs, g \in GlStrs}
              : <<m, d, st>> \in MonthStrs \X DayStrs \X DelimStyles}

TimedDates == TimedYearStrs \X TimedGlStrs \X TimedMonthStrs \X TimedDayStrs

TimedInputs ==
    UNION {{Compact17(t[1], t[2], t[3], t[4], k, r, st) : k \in SksStrs, r \in RemStrs}
              : <<t, st>> \in TimedDates \X DelimStyles}
    \cup
    UNION {{Dashed19(t[1], t[2], t[3], t[4], k, r, st) : k \in SksStrs, r \in RemStrs}
              : <<t, st>> \in TimedDates \X DelimStyles}

\* Strings cut or extended to every length 0..MaxLen.
BaseStrs ==
    {<<"2", "0", "1", "9", "-", "G", "A", "-", "0", "1", "T", "3", "1", "S", "2", "0", "0", "0", "R">>,
     <<"2", "0", "1", "9", "G", "A", "2", "5", "T", "3", "1", "S", "2", "0", "0", "0", "R">>,
     <<"2", "0", "C3", "A9", "G", "A", "0", "1", "T", "3", "1", "S", "2", "0", "0", "0", "R">>}

\* s cut to n bytes, or extended to n bytes with 'R'.
Resize(s, n) == [i \in 1..n |-> IF i <= Len(s) THEN s[i] ELSE "R"]

ResizedInputs == {Resize(s, n) : s \in BaseStrs, n \in 0..MaxLen}

\* The strings given to interpret_string: every one is a well-formed &str.
Inputs == {s \in DateOnlyInputs \cup TimedInputs \cup ResizedInputs : ValidUtf8(s)}

Years == {0, 7, 2019, 9999, 10000, MaxYear}

Days == {0, 1, 24, 25, 99, 100, MaxU8}

Seconds == {0, 1, 5999, 6000, 188000, 599999, 600000, MaxSecond}

\* The values HTDate::new builds.
Dates == {HTDate(y, m, d, s) : y \in Years, m \in MonthPairs, d \in Days, s \in Seconds}

(***************************************************************************)
(* The operations                                                          *)
(***************************************************************************)

\* HTDate::interpret_string(input); an accepted date is kept in `date`.
Interpret ==
    /\ "interpret_string" \notin done
    /\ result' = interpret_string(input)
    /\ date' = IF result'.tag = "Ok" THEN result'.date ELSE date
    /\ done' = done \cup {"interpret_string"}
    /\ UNCHANGED <<input, text, short, back, twin, twinResult,
                   gl_in, month_in, pair, resolved>>

\* date.to_string(), on a date built by HTDate::new or returned by the parser.
Format ==
    /\ "new" \in done \/ result.tag = "Ok"
    /\ "to_string" \notin done
    /\ text' = to_string(date)
    /\ done' = done \cup {"to_string"}
    /\ UNCHANGED <<input, result, date, short, back, twin, twinResult,
                   gl_in, month_in, pair, resolved>>

\* date.to_string_no_secs()
FormatNoSecs ==
    /\ "new" \in done \/ result.tag = "Ok"
    /\ "to_string_no_secs" \notin done
    /\ short' = to_string_no_secs(date)
    /\ done' = done \cup {"to_string_no_secs"}
    /\ UNCHANGED <<input, result, date, text, back, twin, twinResult,
                   gl_in, month_in, pair, resolved>>

\* HTDate::interpret_string(&date.to_string())
Reinterpret ==
    /\ "to_string" \in done
    /\ "reinterpret" \notin done
    /\ back' = interpret_string(text)
    /\ done' = done \cup {"reinterpret"}
    /\ UNCHANGED <<input, result, date, text, short, twin, twinResult,
                   gl_in, month_in, pair, resolved>>

\* The parts of the state a specification does not use.
Idle(names) ==
    /\ "input" \in names \/ input = <<>>
    /\ "date" \in names \/ date = NoDate
    /\ "twin" \in names \/ twin = <<>>
    /\ "codes" \in names \/ (gl_in = <<>> /\ month_in = <<>>)
    /\ "pair" \in names \/ pair = NoDate.month
    /\ result = NoResult
    /\ back = NoResult
    /\ twinResult = NoResult
    /\ text = <<>>
    /\ short = <<>>
    /\ resolved = MonthErr("")

\* A caller parses a string, formats the date it got and parses that again.
InitParse ==
    /\ input \in Inputs
    /\ done = {}
    /\ Idle({"input"})

NextParse == Interpret \/ Format \/ Reinterpret

SpecParse == InitParse /\ [][NextParse]_vars

\* A caller builds a date, formats it both ways and parses the full format.
InitFormat ==
    /\ date \in Dates
    /\ done = {"new"}
    /\ Idle({"date"})

NextFormat == Format \/ FormatNoSecs \/ Reinterpret

SpecFormat == InitFormat /\ [][NextFormat]_vars

\* The byte strings given to the resolver: every string of at most
\* MaxCodeLen bytes over the code letters, a lower-case letter and a
\* letter that is no code.
MaxCodeLen == 2

CodeBytes == {"G", "L", "Z", "N", "A", "S", "F", "g", "X"}

CodeStrs == UNION {[1..n -> CodeBytes] : n \in 0..MaxCodeLen}

\* parse_month_from_gl_and_m(gl_in, month_in)
Resolve ==
    /\ "resolve" \notin done
    /\ "pair" \in done => "render" \in done
    /\ resolved' = parse_month_from_gl_and_m(gl_in, month_in)
    /\ done' = done \cup {"resolve"}
    /\ UNCHANGED <<input, result, date, text, short, back, twin, twinResult,
                   gl_in, month_in, pair>>

\* The status and month characters the formatters write for `pair`.
Render ==
    /\ "pair" \in done
    /\ "render" \notin done
    /\ gl_in' = <<GlCode(pair)>>
    /\ month_in' = <<MonthCode(pair)>>
    /\ done' = done \cup {"render"}
    /\ UNCHANGED <<input, result, date, text, short, back, twin, twinResult,
                   pair, resolved>>

\* The resolver is given arbitrary strings, or the characters rendered for
\* one of the ten month designators.
InitMonth ==
    \/ /\ gl_in \in CodeStrs
       /\ month_in \in CodeStrs
       /\ done = {}
       /\ Idle({"codes"})
    \/ /\ pair \in MonthPairs
       /\ done = {"pair"}
       /\ Idle({"pair"})

NextMonth == Render \/ Resolve

SpecMonth == InitMonth /\ [][NextMonth]_vars

(***************************************************************************)
(* Two inputs that differ where the layouts have their delimiters          *)
(***************************************************************************)

\* The offsets (0-based) no slice of a layout covers, by input length.
DelimOffsets(n) ==
    CASE n = 17 -> {8, 11, 16}
      [] n = 10 -> {4, 7}
      [] n = 19 -> {4, 7, 10, 13, 18}
      [] OTHER -> {}

\* Most offsets at which the second input differs from the first.
MaxChanges == 3

\* The bytes written over the first input to make the second.
TwinBytes == {"-", "x", "A9", "82", "C3", "C4"}

\* Field values of the first input.
TwinYearStrs ==
    {<<"2", "0", "1", "9">>,
     <<"2", "0", "a", "9">>,
     <<"2", "0", "1", "C3">>}

\* Status fields of the first input.
TwinGlStrs ==
    {<<"G">>,
     <<"A9">>}

\* Sks field, the byte after it and remainder field of the first input.
TwinTimeStrs ==
    {<<"3", "1", "S", "2", "0", "0", "0">>,
     <<"3", "x", "S", "+", "2", "0", "0">>,
     <<"3", "C3", "A9", "2", "0", "0", "0">>,
     <<"A9", "1", "S", "2", "0", "0", "0">>}

TwinDelimStyles == {"literal", "x", "A9", "C3"}

\* The sks delimiter 'S' is part of TwinTimeStrs; the others follow the style.
TwinInputs ==
    {s \in UNION {{Dashed10(y, g, <<"A">>, <<"2", "5">>, st),
                   y \o g \o <<"A">> \o <<"2", "5">> \o Delim(st, "T") \o t \o Delim(st, "R"),
                   Dashed10(y, g, <<"A">>, <<"2", "5">>, st) \o Delim(st, "T") \o t
                       \o Delim(st, "R")}
                     : <<y, g, t, st>> \in
                         TwinYearStrs \X TwinGlStrs \X TwinTimeStrs \X TwinDelimStyles}
       : ValidUtf8(s)}

\* s with byte b written at the offsets (0-based) of P.
Overwrite(s, P, b) == [i \in 1..Len(s) |-> IF (i - 1) \in P THEN b ELSE s[i]]

\* The well-formed strings made from s by overwriting at most MaxChanges of
\* its delimiter offsets and, possibly, its first byte (a field byte).
Twins(s) ==
    {t \in {Overwrite(s, P, b) :
                P \in {Q \in SUBSET (DelimOffsets(Len(s)) \cup {0}) :
                          Cardinality(Q) <= MaxChanges},
                b \in TwinBytes}
       : ValidUtf8(t)}

\* HTDate::interpret_string(twin)
InterpretTwin ==
    /\ "interpret_twin" \notin done
    /\ twinResult' = interpret_string(twin)
    /\ done' = done \cup {"interpret_twin"}
    /\ UNCHANGED <<input, result, date, text, short, back, twin,
                   gl_in, month_in, pair, resolved>>

InitTwin ==
    /\ input \in TwinInputs
    /\ twin \in Twins(input)
    /\ done = {}
    /\ Idle({"input", "twin"})

NextTwin == Interpret \/ InterpretTwin

SpecTwin == InitTwin /\ [][NextTwin]_vars

(***************************************************************************)
(* Properties                                                              *)
(***************************************************************************)

\* The bytes a..b-1 (0-based) of s, as the claims name the fields.
Field(s, a, b) == SubSeq(s, a + 1, b)

\* The field offsets of the layout an input of length n is decoded with:
\* year, status, month, day, and sks and remainder where there is a time.
Layout(n) ==
    CASE n = 8 -> [year |-> <<0, 4>>, gl |-> <<4, 5>>, month |-> <<5, 6>>,
                   day |-> <<6, 8>>, sks |-> <<0, 0>>, rem |-> <<0, 0>>]
      [] n = 10 -> [year |-> <<0, 4>>, gl |-> <<5, 6>>, month |-> <<6, 7>>,
                    day |-> <<8, 10>>, sks |-> <<0, 0>>, rem |-> <<0, 0>>]
      [] n = 17 -> [year |-> <<0, 4>>, gl |-> <<4, 5>>, month |-> <<5, 6>>,
                    day |-> <<6, 8>>, sks |-> <<9, 11>>, rem |-> <<12, 16>>]
      [] n = 19 -> [year |-> <<0, 4>>, gl |-> <<5, 6>>, month |-> <<6, 7>>,
                    day |-> <<8, 10>>, sks |-> <<11, 13>>, rem |-> <<14, 18>>]

LayoutLengths == {8, 10, 17, 19}

HasTime(n) == n \in {17, 19}

FieldOf(s, name) == Field(s, Layout(Len(s))[name][1], Layout(Len(s))[name][2])

AllDigits(f) == Len(f) > 0 /\ \A i \in 1..Len(f) : f[i] \in Digit

\* The numeric fields of the layout of s.
NumericFields(s) ==
    IF HasTime(Len(s)) THEN {"year", "day", "sks", "rem"} ELSE {"year", "day"}

\* No byte of s belongs to a multi-byte character: every slice can be taken.
IsAscii(s) == \A i \in 1..Len(s) : s[i] \notin ContByte \cup Lead2Byte \cup Lead3Byte

\* The status and month fields of s are one of the ten code pairs.
MonthFieldsValid(s) ==
    /\ FieldOf(s, "gl") \in {<<"G">>, <<"L">>}
    /\ FieldOf(s, "month") \in {<<"Z">>, <<"N">>, <<"A">>, <<"S">>, <<"F">>}

\* The dashed form of a compact input.
Dashify(s) == SubSeq(s, 1, 4) \o <<"-">> \o SubSeq(s, 5, 6) \o <<"-">>
                  \o SubSeq(s, 7, Len(s))

\* Number of decimal digits of n.
RECURSIVE NumDigits(_)
NumDigits(n) == IF n < 10 THEN 1 ELSE 1 + NumDigits(n \div 10)

Max(a, b) == IF a >= b THEN a ELSE b

\* C1: a date built by HTDate::new, formatted by to_string and parsed by
\* interpret_string, comes back as Ok of the same date.
C1_FullRoundTrip ==
    ("new" \in done /\ "reinterpret" \in done) => back = Ok(date)

\* C2: an input whose length is none of 8, 10, 17, 19 is rejected with
\* Err(MalformedString).
C2_OtherLengthsMalformed ==
    ("interpret_string" \in done /\ Len(input) \notin LayoutLengths)
        => result = Err(MalformedString)

\* C3: on an input of 8, 10, 17 or 19 bytes interpret_string returns a value,
\* Ok or Err, and does not panic.
C3_NoPanicOnLayoutLengths ==
    ("interpret_string" \in done /\ Len(input) \in LayoutLengths)
        => result.tag \in {"Ok", "Err"}

\* C4: Err(TooManyDays) is returned exactly for the 8-byte inputs whose year
\* and status/month fields are valid and whose day field parses to more than
\* 24; a 10-, 17- or 19-byte input whose fields all parse is accepted with
\* whatever day its day field holds.
C4_DayBoundOnlyCompact ==
    "interpret_string" \in done =>
        /\ result = Err(TooManyDays) <=>
              /\ Len(input) = 8
              /\ ParseU128(Field(input, 0, 4)).ok
              /\ Field(input, 4, 5) \in {<<"G">>, <<"L">>}
              /\ Field(input, 5, 6) \in {<<"Z">>, <<"N">>, <<"A">>, <<"S">>, <<"F">>}
              /\ ParseU8(Field(input, 6, 8)).ok
              /\ ParseU8(Field(input, 6, 8)).val > 24
        /\ ( /\ Len(input) \in {10, 17, 19}
             /\ MonthFieldsValid(input)
             /\ \A f \in NumericFields(input) : ParseU128(FieldOf(input, f)).ok )
           => /\ result.tag = "Ok"
              /\ result.date.day = ParseU8(FieldOf(input, "day")).val

\* C4 witness: a compact date-only input with day 25 was rejected.
C4_Witness ==
    /\ "interpret_string" \in done
    /\ Len(input) = 8
    /\ Field(input, 6, 8) = <<"2", "5">>
    /\ result = Err(TooManyDays)

\* C5: an accepted 17- or 19-byte input yields second = sks * 6000 + rem, an
\* accepted 8- or 10-byte input yields second = 0, and the dashed form of an
\* accepted compact input parses to the same value.
C5_TimeArithmetic ==
    ("interpret_string" \in done /\ result.tag = "Ok") =>
        /\ Len(input) = 17 =>
              result.date.second = ParseU128(Field(input, 9, 11)).val * 6000
                                     + ParseU128(Field(input, 12, 16)).val
        /\ Len(input) = 19 =>
              result.date.second = ParseU128(Field(input, 11, 13)).val * 6000
                                     + ParseU128(Field(input, 14, 18)).val
        /\ Len(input) \in {8, 10} => result.date.second = 0
        /\ Len(input) \in {8, 17} => interpret_string(Dashify(input)) = result

\* C5 witness: "....T31S2000R" in the compact layout gave 188000.
C5_Witness ==
    /\ "interpret_string" \in done
    /\ Len(input) = 17
    /\ Field(input, 9, 11) = <<"3", "1">>
    /\ result.tag = "Ok"
    /\ result.date.second = 188000

\* C6: the resolver accepts exactly the ten one-byte code pairs, the codes
\* it accepts are the ones the formatters write for the pair it returns (so
\* distinct codes give distinct pairs), the codes rendered for a pair resolve
\* to that pair, and everything else is Err(MalformedString).
C6_ResolverInverse ==
    "resolve" \in done =>
        /\ resolved.ok <=>
              /\ gl_in \in {<<"G">>, <<"L">>}
              /\ month_in \in {<<"Z">>, <<"N">>, <<"A">>, <<"S">>, <<"F">>}
        /\ resolved.ok =>
              /\ resolved.month \in MonthPairs
              /\ (gl_in = <<"G">>) <=> (resolved.month[1] = "Greater")
              /\ (month_in = <<"Z">>) <=> (resolved.month[2] = "Zero")
              /\ (month_in = <<"N">>) <=> (resolved.month[2] = "Niktvirin")
              /\ (month_in = <<"A">>) <=> (resolved.month[2] = "Apress")
              /\ (month_in = <<"S">>) <=> (resolved.month[2] = "Smosh")
              /\ (month_in = <<"F">>) <=> (resolved.month[2] = "Funny")
        /\ ~resolved.ok => resolved.err = MalformedString
        /\ "render" \in done => (resolved.ok /\ resolved.month = pair)

\* C6 witness: the codes rendered for (Lesser, Funny) were resolved.
C6_Witness ==
    /\ "render" \in done
    /\ "resolve" \in done
    /\ pair = <<"Lesser", "Funny">>
    /\ gl_in = <<"L">>
    /\ resolved.ok

\* C7: to_string writes year (at least 4 digits), '-', status, month, '-',
\* day (at least 2 digits), 'T', second / 6000 (at least 2 digits), 'S',
\* second % 6000 (at least 4 digits), 'R'; every numeric field holds the full
\* value, widening when the value has more digits than the nominal width;
\* to_string_no_secs is the part of to_string before the 'T'.
C7_PaddingWidens ==
    LET yw == Max(4, NumDigits(date.year))
        dw == Max(2, NumDigits(date.day))
        kw == Max(2, NumDigits(date.second \div 6000))
        rw == Max(4, NumDigits(date.second % 6000))
        y0 == 0
        d0 == yw + 4
        k0 == d0 + dw + 1
        r0 == k0 + kw + 1
    IN  /\ "to_string" \in done =>
              /\ Len(text) = r0 + rw + 1
              /\ AllDigits(Field(text, y0, y0 + yw))
              /\ DecimalValue(Field(text, y0, y0 + yw)) = date.year
              /\ text[yw + 1] = "-"
              /\ text[yw + 2] = (IF date.month[1] = "Greater" THEN "G" ELSE "L")
              /\ text[yw + 3] = MonthCode(date.month)
              /\ text[yw + 4] = "-"
              /\ AllDigits(Field(text, d0, d0 + dw))
              /\ DecimalValue(Field(text, d0, d0 + dw)) = date.day
              /\ text[k0] = "T"
              /\ AllDigits(Field(text, k0, k0 + kw))
              /\ DecimalValue(Field(text, k0, k0 + kw)) = date.second \div 6000
              /\ text[r0] = "S"
              /\ AllDigits(Field(text, r0, r0 + rw))
              /\ DecimalValue(Field(text, r0, r0 + rw)) = date.second % 6000
              /\ text[r0 + rw + 1] = "R"
        /\ ("to_string" \in done /\ "to_string_no_secs" \in done) =>
              short = Field(text, 0, k0 - 1)

\* C7 witness: year 10000 was written as a five-byte field by both formatters.
C7_Witness ==
    /\ "to_string" \in done
    /\ "to_string_no_secs" \in done
    /\ date.year = 10000
    /\ Field(text, 0, 6) = <<"1", "0", "0", "0", "0", "-">>
    /\ Len(short) = 11

\* C8: when a numeric field of the layout holds anything but decimal digits,
\* the input is rejected with Err(MalformedString).  (Stated for inputs whose
\* slices can all be taken.)
C8_DigitsOnly ==
    ( /\ "interpret_string" \in done
      /\ Len(input) \in LayoutLengths
      /\ IsAscii(input)
      /\ \E f \in NumericFields(input) : ~AllDigits(FieldOf(input, f)) )
    => result = Err(MalformedString)

\* C9: a date accepted by interpret_string, formatted by to_string and parsed
\* again, comes back as the same Ok value.
C9_AcceptedRoundTrip ==
    ("interpret_string" \in done /\ "reinterpret" \in done /\ result.tag = "Ok")
        => back = result

\* Two inputs have the same length and the same byte at every field offset.
AgreeOnFields(a, b) ==
    /\ Len(a) = Len(b)
    /\ \A i \in 0..(Len(a) - 1) : i \notin DelimOffsets(Len(a)) => a[i + 1] = b[i + 1]

\* C10: two inputs of length 10, 17 or 19 that agree at every field offset
\* give the same result, whatever stands at the delimiter offsets.
C10_DelimitersIgnored ==
    ( /\ "interpret_string" \in done
      /\ "interpret_twin" \in done
      /\ Len(input) \in {10, 17, 19}
      /\ AgreeOnFields(input, twin) )
    => twinResult = result

\* C10 witness: two accepted inputs that differ at a delimiter offset.
C10_Witness ==
    /\ "interpret_string" \in done
    /\ "interpret_twin" \in done
    /\ Len(input) = 19
    /\ AgreeOnFields(input, twin)
    /\ input[5] # twin[5]
    /\ result.tag = "Ok"
    /\ twinResult = result

====
